---- MODULE Spec2Model ----
(***************************************************************************)
(* SyncLocalStorage (src/SyncLocalStorage.js): a namespacing, serializing  *)
(* wrapper around a localStorage-like backend.                             *)
(*                                                                         *)
(* Strings are sequences of one-character strings.  The backend is a       *)
(* sequence of entries, indexed as key(i) shows them; the order is the     *)
(* backend's own and may change whenever the number of keys changes.       *)
(* Several stores (one per namespace) share the backend.                   *)
(***************************************************************************)
EXTENDS Integers, Sequences, FiniteSets, TLC

VARIABLES ls, pre, last

vars == <<ls, pre, last>>

\* ------------------------------------------------------------------ bounds
\* Largest number of entries the backend accepts (its quota).
MaxEntries == 2

\* Most entries the backend holds under SpecStores.
MaxStoreEntries == 3

\* ----------------------------------------------------------------- strings
\* JavaScript's null (what the backend returns for a missing key or index).
\* Distinct from every string: its element is not a character.
Null == <<"NULL">>

Dot == "."

Star == "*"

Min(a, b) == IF a < b THEN a ELSE b

\* k.substr(start, length)
substr(k, start, length) == SubSeq(k, start + 1, Min(start + length, Len(k)))

\* k.substr(start)
substrFrom(k, start) == SubSeq(k, start + 1, Len(k))

\* k.indexOf('.'): 0-based position of the first dot, -1 when there is none
indexOfDot(k) ==
    IF \E j \in 1..Len(k) : k[j] = Dot
    THEN (CHOOSE j \in 1..Len(k) : k[j] = Dot /\ \A h \in 1..(j - 1) : k[h] # Dot) - 1
    ELSE -1

\* s.split('.')
RECURSIVE split(_)
split(s) ==
    IF indexOfDot(s) = -1
    THEN <<s>>
    ELSE <<substr(s, 0, indexOfDot(s))>> \o split(substrFrom(s, indexOfDot(s) + 1))

\* ------------------------------------------------------------------ inputs
Namespaces == { <<"n">>, <<"n", ".", "m">> }

Keys == { <<>>, <<"x">>, <<"m", ".", "x">> }

\* JavaScript values handed to setItem, named by their literal.
Values == { "1", "NaN" }

Patterns ==
    { <<>>, <<"x", ".", ".", "x">>, <<"*">>, <<"m", ".", "*">>, <<"*", ".", "x">> }

\* ------------------------------------------------------------------- codec
\* The serialize function given to the constructor: JSON.stringify.
serialize(v) ==
    CASE v = "1" -> <<"1">>
      [] v = "NaN" -> <<"n", "u", "l", "l">>
      [] v = "null" -> <<"n", "u", "l", "l">>

\* The unserialize function given to the constructor: JSON.parse.
\* JSON.parse(null) parses the text "null".
unserialize(s) ==
    CASE s = Null -> "null"
      [] s = <<"1">> -> "1"
      [] s = <<"n", "u", "l", "l">> -> "null"

\* ----------------------------------------------------------------- backend
\* The localStorage collaborator: entries in the order key(i) shows them.
\* That order is backend-defined: it stays as it is while the number of keys
\* stays the same, and may be any order after a key was added or removed
\* (insertion order, sorted order and hash order are all among the outcomes).
\* Hence setItem and removeItem yield the SET of backends that may result.
\* Field `by` is history: the namespace of the store whose setItem last wrote
\* the entry.
lsLength(s) == Len(s)

lsHas(s, pk) == \E j \in 1..Len(s) : s[j].k = pk

lsIndex(s, pk) == CHOOSE j \in 1..Len(s) : s[j].k = pk

lsKey(s, i) == IF i >= 0 /\ i < Len(s) THEN s[i + 1].k ELSE Null

lsGetItem(s, pk) == IF lsHas(s, pk) THEN s[lsIndex(s, pk)].v ELSE Null

\* Every order of the entries of s.
lsOrders(s) ==
    { [j \in 1..Len(s) |-> s[p[j]]] :
        p \in { q \in [1..Len(s) -> 1..Len(s)] :
                  \A a, b \in 1..Len(s) : a # b => q[a] # q[b] } }

lsSetItem(s, pk, text, by) ==
    IF lsHas(s, pk)
    THEN { [s EXCEPT ![lsIndex(s, pk)] = [k |-> pk, v |-> text, by |-> by]] }
    ELSE lsOrders(Append(s, [k |-> pk, v |-> text, by |-> by]))

lsRemoveItem(s, pk) ==
    IF lsHas(s, pk)
    THEN lsOrders(SelectSeq(s, LAMBDA e : e.k # pk))
    ELSE { s }

\* ------------------------------------------------------------------- store
\* Mutant: only the entries of one namespace are counted.
getLengthNamespaced(s) ==
    Len(SelectSeq(s, LAMBDA e : substr(e.k, 0, 4) = <<"n", ".", "m", ".">>))

getLength(s) == lsLength(s)

\* Mutant: every store writes under one shared namespace.
setItemSharedNs(s, ns, k, v) == lsSetItem(s, <<"n">> \o <<Dot>> \o k, serialize(v), ns)

\* Mutant: a key that already holds a value is not overwritten.
setItemOnce(s, ns, k, v) ==
    IF lsHas(s, ns \o <<Dot>> \o k)
    THEN { s }
    ELSE lsSetItem(s, ns \o <<Dot>> \o k, serialize(v), ns)

setItem(s, ns, k, v) == lsSetItem(s, ns \o <<Dot>> \o k, serialize(v), ns)

getItem(s, ns, k) == unserialize(lsGetItem(s, ns \o <<Dot>> \o k))

\* Mutant: every key that starts with the physical key is removed.
removeItemByPrefix(s, ns, k) ==
    lsOrders(SelectSeq(s, LAMBDA e :
        substr(e.k, 0, Len(ns \o <<Dot>> \o k)) # ns \o <<Dot>> \o k))

\* Mutant: the namespace prefix is forgotten.
removeItemNoNs(s, ns, k) == lsRemoveItem(s, k)

removeItem(s, ns, k) == lsRemoveItem(s, ns \o <<Dot>> \o k)

\* Mutant: the namespace prefix test is missing; every backend key is
\* reported.
keyAnyNamespace(s, ns, i) ==
    LET k == lsKey(s, i) IN
    IF k = Null THEN Null ELSE substrFrom(k, indexOfDot(k) + 1)

\* Mutant: the logical key is cut after the namespace prefix, not after the
\* first dot, so that key() and findKeys() derive it differently.
keyAfterPrefix(s, ns, i) ==
    LET k == lsKey(s, i) IN
    IF k = Null THEN Null
    ELSE IF Len(k) > Len(ns) /\ substr(k, 0, Len(ns) + 1) = ns \o <<Dot>>
         THEN substrFrom(k, Len(ns) + 1)
         ELSE Null

key(s, ns, i) ==
    LET k == lsKey(s, i) IN
    IF k = Null THEN Null
    ELSE IF Len(k) > Len(ns) /\ substr(k, 0, Len(ns) + 1) = ns \o <<Dot>>
         THEN substrFrom(k, indexOfDot(k) + 1)
         ELSE Null

RECURSIVE keysLoop(_, _, _, _, _)
keysLoop(s, ns, i, length, r) ==
    IF i < length THEN keysLoop(s, ns, i + 1, length, Append(r, key(s, ns, i))) ELSE r

keys(s, ns) == keysLoop(s, ns, 0, getLength(s), <<>>)

RECURSIVE clearCollect(_, _, _, _, _)
clearCollect(s, ns, i, l, ks) ==
    IF i < l
    THEN clearCollect(s, ns, i + 1, l,
                      IF key(s, ns, i) # Null THEN Append(ks, key(s, ns, i)) ELSE ks)
    ELSE ks

RECURSIVE clearRemove(_, _, _)
clearRemove(s, ns, ks) ==
    IF Len(ks) > 0
    THEN UNION { clearRemove(t, ns, Tail(ks)) : t \in removeItem(s, ns, Head(ks)) }
    ELSE { s }

\* The backend calls clear() makes, in order: one key(i) per turn of the for
\* loop, then one removeItem per turn of the while loop.
RECURSIVE clearLogReads(_, _, _)
clearLogReads(i, l, log) ==
    IF i < l
    THEN clearLogReads(i + 1, l, Append(log, [call |-> "key", i |-> i, k |-> <<>>]))
    ELSE log

RECURSIVE clearLogRemoves(_, _, _)
clearLogRemoves(ns, ks, log) ==
    IF Len(ks) > 0
    THEN clearLogRemoves(ns, Tail(ks),
            Append(log, [call |-> "removeItem", i |-> -1, k |-> ns \o <<Dot>> \o Head(ks)]))
    ELSE log

clearLog(s, ns) ==
    clearLogRemoves(ns, clearCollect(s, ns, 0, getLength(s), <<>>),
                    clearLogReads(0, getLength(s), <<>>))

\* Mutant: the whole backend is wiped.
clearAll(s, ns) == { <<>> }

clear(s, ns) == clearRemove(s, ns, clearCollect(s, ns, 0, getLength(s), <<>>))

\* -------------------------------------------------------- pattern compiler
\* buildRe (FindKeysReBuilder.js): the compiled pattern is its sequence of
\* segments; ReFalse is the `false` it returns for a malformed pattern.
ReFalse == <<>>

malformed(pattern) ==
    \/ Len(pattern) = 0
    \/ \E j \in 1..Len(split(pattern)) :
          \/ Len(split(pattern)[j]) = 0
          \/ /\ Len(split(pattern)[j]) > 1
             /\ \E h \in 1..Len(split(pattern)[j]) : split(pattern)[j][h] = Star

buildRe(pattern) == IF malformed(pattern) THEN ReFalse ELSE split(pattern)

\* re.test(k)
reTest(re, k) ==
    /\ Len(split(k)) = Len(re)
    /\ \A j \in 1..Len(re) : re[j] = <<Star>> \/ re[j] = split(k)[j]

\* ---------------------------------------------------------------- findKeys
ErrHead == "You cannot find keys from the pattern '"

\* Mutant: matches are put at the front of the result (unshift for push).
RECURSIVE findKeysLoopUnshift(_, _, _, _, _, _)
findKeysLoopUnshift(s, ns, re, i, l, r) ==
    IF i < l
    THEN LET k == lsKey(s, i) IN
         findKeysLoopUnshift(s, ns, re, i + 1, l,
            IF Len(k) > Len(ns) /\ substr(k, 0, Len(ns) + 1) = ns \o <<Dot>>
            THEN IF reTest(re, substrFrom(k, indexOfDot(k) + 1))
                 THEN <<substrFrom(k, indexOfDot(k) + 1)>> \o r
                 ELSE r
            ELSE r)
    ELSE r

RECURSIVE findKeysLoop(_, _, _, _, _, _)
findKeysLoop(s, ns, re, i, l, r) ==
    IF i < l
    THEN LET k == lsKey(s, i) IN
         findKeysLoop(s, ns, re, i + 1, l,
            IF Len(k) > Len(ns) /\ substr(k, 0, Len(ns) + 1) = ns \o <<Dot>>
            THEN IF reTest(re, substrFrom(k, indexOfDot(k) + 1))
                 THEN Append(r, substrFrom(k, indexOfDot(k) + 1))
                 ELSE r
            ELSE r)
    ELSE r

\* Mutant: the scan runs before the compiled pattern is checked.
findKeysScanFirst(s, ns, pattern) ==
    IF buildRe(pattern) = ReFalse
    THEN [threw |-> TRUE, message |-> <<ErrHead>> \o pattern \o <<"'">>,
          r |-> <<>>, reads |-> lsLength(s)]
    ELSE [threw |-> FALSE, message |-> <<>>,
          r |-> findKeysLoop(s, ns, buildRe(pattern), 0, lsLength(s), <<>>),
          reads |-> lsLength(s)]

\* Result of a call: whether it threw, the Error's message, the returned array
\* and the number of backend index reads (this._ls.key calls) it made.
findKeys(s, ns, pattern) ==
    IF buildRe(pattern) = ReFalse
    THEN [threw |-> TRUE, message |-> <<ErrHead>> \o pattern \o <<"'">>,
          r |-> <<>>, reads |-> 0]
    ELSE [threw |-> FALSE, message |-> <<>>,
          r |-> findKeysLoop(s, ns, buildRe(pattern), 0, lsLength(s), <<>>),
          reads |-> lsLength(s)]

\* ------------------------------------------------------------------ state
NoOp == [op |-> "init", ns |-> <<>>, arg |-> <<>>, res |-> <<>>]

Init == ls = <<>> /\ pre = <<>> /\ last = NoOp

\* setItem on a backend that holds at most max entries.
DoSetItemUpTo(max, ns, k, v) ==
    /\ lsHas(ls, ns \o <<Dot>> \o k) \/ Len(ls) < max
    /\ ls' \in setItem(ls, ns, k, v)
    /\ pre' = ls
    /\ last' = [op |-> "setItem", ns |-> ns, arg |-> [k |-> k, v |-> v], res |-> <<>>]

DoSetItem(ns, k, v) == DoSetItemUpTo(MaxEntries, ns, k, v)

\* Mutant: reading an item also removes it.
DoGetItemConsuming(ns, k) ==
    /\ ls' \in removeItem(ls, ns, k)
    /\ pre' = ls
    /\ last' = [op |-> "getItem", ns |-> ns, arg |-> k, res |-> getItem(ls, ns, k)]

DoGetItem(ns, k) ==
    /\ ls' = ls
    /\ pre' = ls
    /\ last' = [op |-> "getItem", ns |-> ns, arg |-> k, res |-> getItem(ls, ns, k)]

DoRemoveItem(ns, k) ==
    /\ ls' \in removeItem(ls, ns, k)
    /\ pre' = ls
    /\ last' = [op |-> "removeItem", ns |-> ns, arg |-> k, res |-> <<>>]

DoClear(ns) ==
    /\ ls' \in clear(ls, ns)
    /\ pre' = ls
    /\ last' = [op |-> "clear", ns |-> ns, arg |-> <<>>, res |-> clearLog(ls, ns)]

DoKey(ns, i) ==
    /\ ls' = ls
    /\ pre' = ls
    /\ last' = [op |-> "key", ns |-> ns, arg |-> i, res |-> key(ls, ns, i)]

DoKeys(ns) ==
    /\ ls' = ls
    /\ pre' = ls
    /\ last' = [op |-> "keys", ns |-> ns, arg |-> <<>>, res |-> keys(ls, ns)]

DoFindKeys(ns, pattern) ==
    /\ ls' = ls
    /\ pre' = ls
    /\ last' = [op |-> "findKeys", ns |-> ns, arg |-> pattern,
                res |-> findKeys(ls, ns, pattern)]

DoGetLength(ns) ==
    /\ ls' = ls
    /\ pre' = ls
    /\ last' = [op |-> "getLength", ns |-> ns, arg |-> <<>>, res |-> getLength(ls)]

Next ==
    \/ \E ns \in Namespaces, k \in Keys, v \in Values : DoSetItem(ns, k, v)
    \/ \E ns \in Namespaces, k \in Keys : DoGetItem(ns, k)
    \/ \E ns \in Namespaces, k \in Keys : DoRemoveItem(ns, k)
    \/ \E ns \in Namespaces : DoClear(ns)
    \/ \E ns \in Namespaces, i \in 0..MaxEntries : DoKey(ns, i)
    \/ \E ns \in Namespaces : DoKeys(ns)
    \/ \E ns \in Namespaces, pattern \in Patterns : DoFindKeys(ns, pattern)
    \/ \E ns \in Namespaces : DoGetLength(ns)

Spec == Init /\ [][Next]_vars

\* A second set of inputs: three stores, two of them with unrelated
\* namespaces ("n" and "m"), and keys of one non-empty segment.  Key "m" in
\* namespace "n" has the physical key "n.m", which equals a namespace.
StoreNamespaces == { <<"n">>, <<"m">>, <<"n", ".", "m">> }

StoreKeys == { <<"x">>, <<"m">> }

StorePatterns == { <<"*">>, <<"m", ".", "*">>, <<"x">> }

StoreValues == { "1" }

\* The stores share a backend of up to MaxStoreEntries entries: room for one
\* store's two keys and a third entry another store adds or removes.
DoStoreSetItem(ns, k, v) == DoSetItemUpTo(MaxStoreEntries, ns, k, v)

NextStores ==
    \/ \E ns \in StoreNamespaces, k \in StoreKeys, v \in StoreValues : DoStoreSetItem(ns, k, v)
    \/ \E ns \in StoreNamespaces, k \in StoreKeys : DoGetItem(ns, k)
    \/ \E ns \in StoreNamespaces, k \in StoreKeys : DoRemoveItem(ns, k)
    \/ \E ns \in StoreNamespaces : DoClear(ns)
    \/ \E ns \in StoreNamespaces : DoKeys(ns)
    \/ \E ns \in StoreNamespaces, pattern \in StorePatterns : DoFindKeys(ns, pattern)

SpecStores == Init /\ [][NextStores]_vars

\* ------------------------------------------------------------------ claims
\* Vocabulary of the claims.
HasPrefix(k, p) == Len(k) >= Len(p) /\ SubSeq(k, 1, Len(p)) = p

\* Physical key of logical key k in namespace ns.
Physical(ns, k) == ns \o <<Dot>> \o k

\* A physical key belongs to namespace ns when it starts with ns + ".".
InNamespace(ns, pk) == HasPrefix(pk, ns \o <<Dot>>)

\* Logical key: the part of the physical key after the prefix and its dot.
Logical(ns, pk) == SubSeq(pk, Len(ns) + 2, Len(pk))

RoundTrips(v) == unserialize(serialize(v)) = v

Elems(q) == { q[j] : j \in 1..Len(q) }

\* C1: a setItem(k, v) through the store of one namespace leaves getItem(k)
\* through every store of another namespace as it was before the write.
C1_WriteNotObservable ==
    last.op = "setItem" =>
        \A ns2 \in Namespaces \ {last.ns} :
            getItem(ls, ns2, last.arg.k) = getItem(pre, ns2, last.arg.k)

\* C1 witness: a write under key k while another namespace holds a different
\* text under the same key k.
C1_Witness ==
    /\ last.op = "setItem"
    /\ \E ns2 \in Namespaces \ {last.ns} :
          /\ lsHas(pre, Physical(ns2, last.arg.k))
          /\ lsGetItem(pre, Physical(ns2, last.arg.k)) # serialize(last.arg.v)

\* C2: setItem(k, v) followed by getItem(k) on the same store returns v, for
\* every v the codec round-trips, also when k held another value before.
C2_RoundTrip ==
    (last.op = "setItem" /\ RoundTrips(last.arg.v)) =>
        getItem(ls, last.ns, last.arg.k) = last.arg.v

\* C2 witness: a round-tripping value written over a different stored text.
C2_Witness ==
    /\ last.op = "setItem"
    /\ RoundTrips(last.arg.v)
    /\ lsHas(pre, Physical(last.ns, last.arg.k))
    /\ lsGetItem(pre, Physical(last.ns, last.arg.k)) # serialize(last.arg.v)

\* C3: after removeItem(k), getItem(k) on the same store is the unserializer's
\* output for null, whether or not k was present; a getItem of a key that is
\* not in the backend returns the same.
C3_RemoveThenGet ==
    /\ last.op = "removeItem" =>
          getItem(ls, last.ns, last.arg) = unserialize(Null)
    /\ (last.op = "getItem" /\ ~lsHas(pre, Physical(last.ns, last.arg))) =>
          last.res = unserialize(Null)

\* C3 witness: the removed key was present, holding a text that does not
\* unserialize to the missing-value result.
C3_Witness ==
    /\ last.op = "removeItem"
    /\ lsHas(pre, Physical(last.ns, last.arg))
    /\ getItem(pre, last.ns, last.arg) # unserialize(Null)

\* C4 (as claimed): once clear() has run on a store, keys() of that store has
\* no non-null entry and no backend entry of the namespace remains.
C4_ClearEmptiesNamespace ==
    last.op = "clear" =>
        /\ \A j \in 1..Len(keys(ls, last.ns)) : keys(ls, last.ns)[j] = Null
        /\ \A j \in 1..Len(ls) : ~InNamespace(last.ns, ls[j].k)

\* C5 (as claimed): clear() on a store leaves every entry written through a
\* store of another namespace present with the same value.
C5_ClearKeepsOtherStores ==
    last.op = "clear" =>
        \A j \in 1..Len(pre) :
            pre[j].by # last.ns =>
                \E h \in 1..Len(ls) : ls[h].k = pre[j].k /\ ls[h].v = pre[j].v

\* C5 (amended): clear() on the store of namespace ns leaves every entry whose
\* physical key does not start with ns + "." present with the same value.
C5_ClearKeepsOutside ==
    last.op = "clear" =>
        \A j \in 1..Len(pre) :
            ~InNamespace(last.ns, pre[j].k) =>
                \E h \in 1..Len(ls) : ls[h].k = pre[j].k /\ ls[h].v = pre[j].v

\* C5 witness: clear() ran with an entry of the namespace and an entry outside
\* it in the backend, the latter written through another store.
C5_Witness ==
    /\ last.op = "clear"
    /\ \E j \in 1..Len(pre) : InNamespace(last.ns, pre[j].k)
    /\ \E j \in 1..Len(pre) :
          /\ ~InNamespace(last.ns, pre[j].k)
          /\ pre[j].by # last.ns
          /\ \E h \in 1..Len(ls) : ls[h] = pre[j]

\* The matching relation of the pattern language: same number of segments,
\* each segment equal or facing a whole-segment "*".
SegmentsMatch(pattern, k) ==
    /\ Len(split(k)) = Len(split(pattern))
    /\ \A j \in 1..Len(split(pattern)) :
          split(pattern)[j] = <<Star>> \/ split(pattern)[j] = split(k)[j]

\* A pattern with no segment or with an empty segment.
EmptySegment(pattern) ==
    pattern = <<>> \/ \E j \in 1..Len(split(pattern)) : split(pattern)[j] = <<>>

WellFormed(pattern) ==
    /\ ~EmptySegment(pattern)
    /\ \A j \in 1..Len(split(pattern)) :
          split(pattern)[j] = <<Star>> \/ Star \notin Elems(split(pattern)[j])

\* C6 (as claimed): for a well-formed pattern findKeys returns exactly the
\* logical keys of the store's namespace that match it segment by segment.
C6_FindKeysExact ==
    (last.op = "findKeys" /\ WellFormed(last.arg)) =>
        /\ ~last.res.threw
        /\ Elems(last.res.r) =
              { Logical(last.ns, ls[j].k) :
                  j \in { h \in 1..Len(ls) :
                            /\ InNamespace(last.ns, ls[h].k)
                            /\ SegmentsMatch(last.arg, Logical(last.ns, ls[h].k)) } }

\* C7: findKeys with the empty pattern or a pattern with an empty segment
\* throws an error whose message carries the pattern (between its quotes),
\* reads no backend index, returns nothing and leaves the backend as it was.
C7_MalformedFails ==
    (last.op = "findKeys" /\ EmptySegment(last.arg)) =>
        /\ last.res.threw
        /\ SubSeq(last.res.message, 2, Len(last.res.message) - 1) = last.arg
        /\ last.res.reads = 0
        /\ last.res.r = <<>>
        /\ ls = pre

\* C7 witness: a pattern with an empty segment met a non-empty backend.
C7_Witness ==
    /\ last.op = "findKeys"
    /\ last.arg = <<"x", ".", ".", "x">>
    /\ last.res.threw
    /\ \E j \in 1..Len(ls) : InNamespace(last.ns, ls[j].k)

\* C8 (as claimed): while the entry a store wrote under key k is present,
\* keys() of that store contains k as it was passed to setItem.
C8_KeysReportWrittenKey ==
    last.op = "keys" =>
        \A k \in Keys :
            (\E j \in 1..Len(ls) : ls[j].k = Physical(last.ns, k) /\ ls[j].by = last.ns)
                => k \in Elems(last.res)

\* C9 (as claimed): keys() is positional: as long as the backend, null exactly
\* at the indices whose physical key is outside the namespace, and the logical
\* key of the physical key elsewhere.
C9_KeysPositional ==
    last.op = "keys" =>
        /\ Len(last.res) = Len(ls)
        /\ \A j \in 1..Len(ls) :
              /\ last.res[j] = Null <=> ~InNamespace(last.ns, ls[j].k)
              /\ InNamespace(last.ns, ls[j].k) =>
                    last.res[j] = Logical(last.ns, ls[j].k)

\* C10 (as claimed): every non-null key reported by key(i) or keys() is a
\* non-empty string.
C10_NoEmptyLogicalKey ==
    /\ last.op = "key" => (last.res = Null \/ Len(last.res) > 0)
    /\ last.op = "keys" =>
          \A j \in 1..Len(last.res) : last.res[j] = Null \/ Len(last.res[j]) > 0

\* C11: getLength() of any store is the size of the whole backend, the number
\* of distinct physical keys present, whatever namespace they belong to.
C11_LengthIsBackendSize ==
    last.op = "getLength" =>
        /\ last.res = Cardinality({ ls[j].k : j \in 1..Len(ls) })
        /\ last.res = Cardinality({ j \in 1..Len(ls) : InNamespace(last.ns, ls[j].k) })
                      + Cardinality({ j \in 1..Len(ls) : ~InNamespace(last.ns, ls[j].k) })

\* C11 witness: the store's namespace holds fewer entries than the backend.
C11_Witness ==
    /\ last.op = "getLength"
    /\ last.res = MaxEntries
    /\ \E j \in 1..Len(ls) : InNamespace(last.ns, ls[j].k)
    /\ \E j \in 1..Len(ls) : ~InNamespace(last.ns, ls[j].k)

\* Indices (1-based) of the backend entries inside namespace ns, ascending.
NamespaceIndices(s, ns) ==
    SelectSeq([j \in 1..Len(s) |-> j], LAMBDA j : InNamespace(ns, s[j].k))

\* C12 (as claimed): clear() first reads every backend index in turn and
\* collects the logical key of every entry of the namespace, then issues its
\* removals: exactly one removeItem per entry the namespace had when clear()
\* started, in index order, for that entry's logical key, so that none is
\* skipped and none removed twice; the call sequence is finite and none of
\* those entries is left in the backend.
C12_ClearSnapshotsThenRemoves ==
    last.op = "clear" =>
        LET log == last.res
            l == Len(pre)
            idx == NamespaceIndices(pre, last.ns)
        IN  /\ Len(log) = l + Len(idx)
            /\ \A j \in 1..l : log[j].call = "key" /\ log[j].i = j - 1
            /\ \A j \in 1..Len(idx) :
                  /\ log[l + j].call = "removeItem"
                  /\ log[l + j].k = Physical(last.ns, Logical(last.ns, pre[idx[j]].k))
            /\ \A j \in 1..Len(idx) : ~lsHas(ls, pre[idx[j]].k)

HasSuffix(k, x) == Len(k) >= Len(x) /\ SubSeq(k, Len(k) - Len(x) + 1, Len(k)) = x

\* C13: the keys findKeys returns come in ascending order of the backend
\* indices their physical keys sit at, one per entry: there is a strictly
\* increasing assignment of result positions to indices of entries of the
\* namespace whose physical key ends with "." + the returned key.  On a
\* backend whose index order is insertion order this is insertion order.
C13_FindKeysInBackendOrder ==
    (last.op = "findKeys" /\ ~last.res.threw) =>
        \E f \in [1..Len(last.res.r) -> 1..Len(ls)] :
            /\ \A a, b \in 1..Len(last.res.r) : a < b => f[a] < f[b]
            /\ \A a \in 1..Len(last.res.r) :
                  /\ InNamespace(last.ns, ls[f[a]].k)
                  /\ HasSuffix(ls[f[a]].k, <<Dot>> \o last.res.r[a])

\* C13 witness: two different keys returned, the one stored at the lower
\* index first.
C13_Witness ==
    /\ last.op = "findKeys"
    /\ ~last.res.threw
    /\ Len(last.res.r) = 2
    /\ last.res.r[1] # last.res.r[2]
    /\ HasSuffix(ls[1].k, <<Dot>> \o last.res.r[1])
    /\ HasSuffix(ls[2].k, <<Dot>> \o last.res.r[2])

\* C14: for a well-formed pattern findKeys returns the non-null entries of
\* keys() that the compiled pattern accepts, in the same order: both derive
\* membership and the logical key the same way.
C14_FindKeysAgreesWithKeys ==
    (last.op = "findKeys" /\ WellFormed(last.arg)) =>
        /\ ~last.res.threw
        /\ last.res.r =
              SelectSeq(keys(ls, last.ns),
                        LAMBDA k : k # Null /\ reTest(buildRe(last.arg), k))

\* C14 witness: a store whose namespace contains a dot; of two backend
\* entries one is returned and the other is foreign or rejected.
C14_Witness ==
    /\ last.op = "findKeys"
    /\ WellFormed(last.arg)
    /\ Dot \in Elems(last.ns)
    /\ Len(ls) = 2
    /\ Len(last.res.r) = 1

\* Two namespaces overlap when the prefix of one starts with the prefix of
\* the other, as "n." and "n.m." do.
Overlap(ns1, ns2) ==
    \/ HasPrefix(ns1 \o <<Dot>>, ns2 \o <<Dot>>)
    \/ HasPrefix(ns2 \o <<Dot>>, ns1 \o <<Dot>>)

NonNull(q) == SelectSeq(q, LAMBDA k : k # Null)

\* Everything the store of namespace ns can read of backend s, in the order
\* the backend shows it.
View(s, ns) ==
    [ get |-> [k \in StoreKeys \cup Keys |-> getItem(s, ns, k)],
      keys |-> NonNull(keys(s, ns)),
      find |-> [p \in StorePatterns |-> findKeys(s, ns, p).r] ]

\* The same, as contents: which keys are reported, whatever their order.
ViewContents(s, ns) ==
    [ get |-> View(s, ns).get,
      keys |-> Elems(View(s, ns).keys),
      find |-> [p \in StorePatterns |-> Elems(View(s, ns).find[p])] ]

\* C15 (as claimed): for stores with distinct namespaces no backend entry is
\* reported by keys() (hence by findKeys) of two stores, and a setItem,
\* removeItem or clear through one store changes nothing another store reads.
C15_NamespacesPartition ==
    /\ \A ns1, ns2 \in StoreNamespaces : \A j \in 1..Len(ls) :
          ns1 # ns2 => (key(ls, ns1, j - 1) = Null \/ key(ls, ns2, j - 1) = Null)
    /\ last.op \in {"setItem", "removeItem", "clear"} =>
          \A ns2 \in StoreNamespaces :
              ns2 # last.ns => View(ls, ns2) = View(pre, ns2)

\* C15 (amended): the same for stores whose namespaces do not overlap, and
\* for what the other store reads as contents: the keys it reports may come
\* in another order once the number of backend keys has changed.
C15_DisjointNamespacesPartition ==
    /\ \A ns1, ns2 \in StoreNamespaces : \A j \in 1..Len(ls) :
          ~Overlap(ns1, ns2) =>
              (key(ls, ns1, j - 1) = Null \/ key(ls, ns2, j - 1) = Null)
    /\ last.op \in {"setItem", "removeItem", "clear"} =>
          \A ns2 \in StoreNamespaces :
              ~Overlap(last.ns, ns2) => ViewContents(ls, ns2) = ViewContents(pre, ns2)

\* C15 witness: a clear() that removed an entry while a store with a
\* non-overlapping namespace had two entries of its own; it still reports
\* both, and the backend now shows them in the other order.
C15_Witness ==
    /\ last.op = "clear"
    /\ Len(ls) < Len(pre)
    /\ \E ns2 \in StoreNamespaces :
          /\ ~Overlap(last.ns, ns2)
          /\ Len(NonNull(keys(ls, ns2))) = 2
          /\ View(ls, ns2).keys # View(pre, ns2).keys

\* Backends s and t agree on every entry whose physical key is not pk.
SameExcept(s, t, pk) ==
    /\ \A j \in 1..Len(s) :
          s[j].k # pk => \E h \in 1..Len(t) : t[h].k = s[j].k /\ t[h].v = s[j].v
    /\ \A h \in 1..Len(t) :
          t[h].k # pk => \E j \in 1..Len(s) : s[j].k = t[h].k /\ s[j].v = t[h].v

\* C16: setItem(k, v) and removeItem(k) through the store of namespace ns
\* change at most the entry ns + "." + k; every other entry keeps its presence
\* and value; setItem grows the backend by 0 or 1, removeItem shrinks it by 0
\* or 1.
C16_SingleEntryFrame ==
    /\ last.op = "setItem" =>
          /\ SameExcept(pre, ls, Physical(last.ns, last.arg.k))
          /\ Len(ls) - Len(pre) \in {0, 1}
    /\ last.op = "removeItem" =>
          /\ SameExcept(pre, ls, Physical(last.ns, last.arg))
          /\ Len(pre) - Len(ls) \in {0, 1}

\* C16 witness: a removeItem that removed its entry and left the other one,
\* whose physical key starts with the removed one.
C16_Witness ==
    /\ last.op = "removeItem"
    /\ Len(pre) = 2
    /\ Len(ls) = 1
    /\ HasPrefix(ls[1].k, Physical(last.ns, last.arg))

\* The result of making the last read call once more, now.
ReadAgain ==
    CASE last.op = "getItem" -> getItem(ls, last.ns, last.arg)
      [] last.op = "key" -> key(ls, last.ns, last.arg)
      [] last.op = "keys" -> keys(ls, last.ns)
      [] last.op = "findKeys" -> findKeys(ls, last.ns, last.arg)
      [] last.op = "getLength" -> getLength(ls)

\* C17: getItem, key, keys, findKeys (thrown or not) and getLength leave the
\* backend as it was, and the same call made again returns the same result.
C17_ReadsChangeNothing ==
    last.op \in {"getItem", "key", "keys", "findKeys", "getLength"} =>
        /\ ls = pre
        /\ ReadAgain = last.res

\* C17 witness: a getItem that found a stored value in a full backend.
C17_Witness ==
    /\ last.op = "getItem"
    /\ lsHas(ls, Physical(last.ns, last.arg))
    /\ last.res = "1"
    /\ Len(ls) = MaxEntries
====
